---- MODULE Spec2Model ----
(***************************************************************************)
(* A model of the pseudo-cd playback engine (src/src/playback.rs) and of   *)
(* the terminal controller that drives it (src/src/tui.rs).                *)
(*                                                                         *)
(* Threads: the controller (Tui::tick / handle_events / clean_up_and_exit),*)
(* the background initialisation thread (Tui::background_thread), the      *)
(* engine thread spawned by start_global_playback_thread together with the *)
(* event listener it calls, and the audio callback (play_fn).              *)
(*                                                                         *)
(* Units.  Byte offsets are bytes.  An f64 number of seconds is held as an *)
(* integer number of "ticks" of 1/BYTES_ONE_SEC second, so that            *)
(* (cursor - start_pos) as f64 / BYTES_ONE_SEC as f64 is the byte distance *)
(* itself and 5.0 seconds is 5 * BYTES_ONE_SEC ticks.  A volume is held in *)
(* hundredths.  The sample rate and the sector size are scaled down (the   *)
(* source has 44100 Hz and 2048 bytes); the bit depth and the channel      *)
(* count are the source's.                                                 *)
(*                                                                         *)
(* Arithmetic overflow.  The engine computes cursor - start_pos in u64.    *)
(* When the cursor is below start_pos the subtraction overflows: the       *)
(* thread panics when overflow checks are compiled in and goes on with a   *)
(* wrapped value when they are not.  The model records the overflow in     *)
(* eng.pc = "overflow" and does not follow the engine any further.         *)
(***************************************************************************)
EXTENDS Integers, Sequences, FiniteSets, TLC

VARIABLES
    paused,         \* engine local `paused`
    reader,         \* engine local `reader`: [open, pos]; pos is the stream position
    start_pos,      \* engine local `start_pos`
    end_pos,        \* engine local `end_pos`
    song_seconds,   \* engine local `song_seconds`
    volume,         \* engine local `volume`, in hundredths
    eng,            \* engine thread: [pc, cur, prev]
    events,         \* the events handed to the listener by the engine's last step
    cmdq,           \* the command mailbox  sync_channel::<PlayerCommand>(1)
    resq,           \* the result mailbox   sync_channel::<PlayerResult>(1)
    sampleq,        \* the output queue     sync_channel(AUDIO_SAMPLE_RATE)
    audio_stream,   \* AUDIO_STREAM holds Some(stream)
    playback_handle,\* PLAYBACK_HANDLE holds Some(handle)
    handle_lock,    \* owner of the PLAYBACK_HANDLE mutex
    ui_lock,        \* owner of the ui_data mutex across blocking steps
    ui,             \* UiData
    songs,          \* MetaInfo.list, as the session_no of each song
    ctl,            \* controller thread: [pc, cmd, kont, reply]
    bg,             \* background thread: its position
    bg_thread_started, \* Tui.bg_thread_started
    nkeys,          \* key events handled so far
    nstopped,       \* Stopped replies sent by the engine so far
    late_push,      \* a sample was pushed after the engine replied Stopped
    progress_log,   \* Progress events since the last Goto or Seek: [by, secs]
    stream_writes,  \* writes to the AUDIO_STREAM slot so far
    data,           \* play_fn: the output buffer `data` of the callback
    got,            \* play_fn: per slot of `data`, whether try_recv returned Ok
    slot,           \* play_fn: slots of `data` filled in the running callback
    pushed,         \* samples sent on sample_tx so far, in order
    played,         \* samples play_fn received so far, in order
    quiet_cycles,   \* callbacks in a row that received no sample
    quiet_silence,  \* silence samples written by those callbacks
    track,          \* a Track of the catalog whose byte offsets are asked for
    offsets         \* the byte offsets computed for it: [start, end]

vars == <<paused, reader, start_pos, end_pos, song_seconds, volume, eng, events,
          cmdq, resq, sampleq, audio_stream, playback_handle, handle_lock,
          ui_lock, ui, songs, ctl, bg, bg_thread_started, nkeys, nstopped,
          late_push, progress_log, stream_writes, data, got, slot, pushed,
          played, quiet_cycles, quiet_silence, track, offsets>>

\* A catalog entry and the byte offsets computed from it.
track_obs == <<track, offsets>>

\* What is observed of the audio callback's output.
audio_obs == <<data, got, slot, pushed, played, quiet_cycles, quiet_silence>>

engine_locals == <<paused, reader, start_pos, end_pos, song_seconds, volume>>

----------------------------------------------------------------------------
(* Bounds of the model *)

\* Sample rate, scaled down from 44100 (playback.rs:20).
AUDIO_SAMPLE_RATE == 1
\* Samples in one sector, scaled down from 1024 (2048 bytes of 16-bit samples).
SectorSamples == 2
\* Key events the controller handles in one run.
MaxKeys == 2
\* Commands the library client sends in one run.
MaxCmds == 3
\* Slots of the buffer the audio device hands to one callback.
FrameSlots == 2
\* Samples the producer sends while the callback is observed.
MaxPush == 3
\* Callbacks in a row that find the queue empty.
MaxQuiet == 2
\* The largest sector address of the small catalog entries.
MaxAddr == 6
\* Bits of a usize, scaled down from 64.
UsizeBits == 4

----------------------------------------------------------------------------
(* Program constants *)

AUDIO_BIT_DEPTH == 16
AUDIO_CHANNELS == 2
\* sync_channel::<PlayerCommand>(1)
CmdCapacity == 1
\* sync_channel::<PlayerResult>(1)
ResultCapacity == 1
\* p -= 5.0 / p += 5.0, in seconds
SeekStepSeconds == 5
\* *volume -= 0.01 / *volume += 0.01, in hundredths
VolumeStep == 1
\* volume = 1.0, in hundredths
FullVolume == 100
\* i16::EQUILIBRIUM, the silence value
EQUILIBRIUM == 0
\* i16::MAX and i16::MIN, the limits of a sample
I16Max == 32767
I16Min == -32768

\* const SECTOR_SIZE: u64 = 2048, the sector size of the disc
DISC_SECTOR_SIZE == 2048

BYTES_PER_SAMPLE == AUDIO_BIT_DEPTH \div 8
SAMPLES_ONE_SEC == AUDIO_SAMPLE_RATE * AUDIO_CHANNELS
BYTES_ONE_SEC == (SAMPLES_ONE_SEC * AUDIO_BIT_DEPTH) \div 8
SECTOR_SIZE == SectorSamples * BYTES_PER_SAMPLE
\* An output queue with room for twice as many samples.
SampleCapacityDoubled == 2 * AUDIO_SAMPLE_RATE

\* sync_channel(AUDIO_SAMPLE_RATE as usize)
SampleCapacity == AUDIO_SAMPLE_RATE

----------------------------------------------------------------------------
(* Tracks, commands, results, events *)

Track(no, start, end, sz) ==
    [track_no |-> no, session_no |-> no, start_addr |-> start,
     end_addr |-> end, size |-> sz]

\* A byte offset that counts the sectors and forgets their size.
SectorOffsetInSectors(addr, sector_size) == addr

\* The byte offset of a sector address.
SectorOffset(addr, sector_size) == addr * sector_size

\* Track::start_offset, Track::end_offset, Track::size_bytes
start_offset(t) == SectorOffset(t.start_addr, SECTOR_SIZE)
end_offset(t) == SectorOffset(t.end_addr, SECTOR_SIZE)
size_bytes(t) == t.size * SECTOR_SIZE

\* duration_from_bytes, in ticks
duration_from_bytes(size) == size

\* The disc: track 1 holds the meta info, tracks 2 and 3 are songs.  Track 3's
\* size counts its end sector too, as a catalog with inclusive end addresses does.
DiscTracks == << Track(1, 0, 1, 1), Track(2, 1, 2, 1), Track(3, 2, 4, 3) >>
\* The song lists a disc's meta info may hold (session numbers); the list may
\* be empty.
SongLists == { << >>, <<2>>, <<2, 3>> }

NoTrack == Track(0, 0, 0, 0)

\* No byte offsets have been computed.
NoOffsets == [start |-> -1, end |-> -1]

Cmd(k, t, f, a, s) == [kind |-> k, track |-> t, flag |-> f, arg |-> a, src |-> s]
NoCmd == Cmd("none", NoTrack, FALSE, 0, "none")
Start(s) == Cmd("Start", NoTrack, FALSE, 0, s)
Goto(t, play, s) == Cmd("Goto", t, play, 0, s)
Seek(p, s) == Cmd("Seek", NoTrack, FALSE, p, s)
Pause(s) == Cmd("Pause", NoTrack, FALSE, 0, s)
Play(s) == Cmd("Play", NoTrack, FALSE, 0, s)
SetPaused(p, s) == Cmd("SetPaused", NoTrack, p, 0, s)
ChangeVolume(v, s) == Cmd("ChangeVolume", NoTrack, FALSE, v, s)
GetPosition(s) == Cmd("GetPosition", NoTrack, FALSE, 0, s)
GetIsPaused(s) == Cmd("GetIsPaused", NoTrack, FALSE, 0, s)
StopAndWait(s) == Cmd("StopAndWait", NoTrack, FALSE, 0, s)

Result(k, f, p) == [kind |-> k, flag |-> f, pos |-> p]
NoResult == Result("None", FALSE, 0)
IsPaused(p) == Result("IsPaused", p, 0)
Position(p) == Result("Position", FALSE, p)
Stopped == Result("Stopped", FALSE, 0)

Event(k, f, a, b) == [kind |-> k, flag |-> f, cur |-> a, total |-> b]
Finished == Event("Finished", FALSE, 0, 0)
Paused(p) == Event("Paused", p, 0, 0)
Progress(a, b) == Event("Progress", FALSE, a, b)

----------------------------------------------------------------------------
(* Pure helpers *)

\* A cast that wraps instead of saturating.
F64ToU64Unsaturated(num, den) == num \div den

\* `x as u64` of an f64: saturating, so a negative number becomes 0.
F64ToU64(num, den) == IF num < 0 THEN 0 ELSE num \div den

\* Seek: (SAMPLES_ONE_SEC as f64 * p) as u64, p in ticks.
SeekSampleCount(p) == F64ToU64(SAMPLES_ONE_SEC * p, BYTES_ONE_SEC)

\* A Seek that keeps an odd sample count.
SeekEvenSamplesKeep(n) == n

\* Seek: only skip even samples.
SeekEvenSamples(n) == IF n % 2 = 1 THEN n - 1 ELSE n

\* A Seek that takes the sample count for a byte count.
SeekPosInSamples(start, p) == start + SeekEvenSamples(SeekSampleCount(p))

\* Seek: seek_pos = start_pos + one_sec_samples * AUDIO_BIT_DEPTH / 8
SeekPos(start, p) ==
    start + (SeekEvenSamples(SeekSampleCount(p)) * AUDIO_BIT_DEPTH) \div 8

\* A position measured from the start of the medium.
PositionOfAbsolute(pos, start) == pos

\* GetPosition: r.stream_position() - start_pos, as f64 over BYTES_ONE_SEC (ticks).
PositionOf(pos, start) == pos - start

\* The 16-bit sample the medium holds at a byte offset: a quiet sample on the
\* left channel, a loud one on the right.
MediumSample(pos) == IF (pos \div BYTES_PER_SAMPLE) % 2 = 0 THEN 3 ELSE -I16Max

\* `x as i16` of an f64 num/den: the fraction is dropped and the value is
\* limited to the range of i16.
F64ToI16(num, den) ==
    LET t == IF num >= 0 THEN num \div den ELSE -((-num) \div den)
    IN  IF t > I16Max THEN I16Max ELSE IF t < I16Min THEN I16Min ELSE t

\* A scaling that rounds to the nearest integer, halves away from zero.
ScaleSampleRounded(sample, v) ==
    LET num == sample * v
        r == IF num >= 0 THEN (2 * num + FullVolume) \div (2 * FullVolume)
             ELSE -((2 * (-num) + FullVolume) \div (2 * FullVolume))
    IN  IF r > I16Max THEN I16Max ELSE IF r < I16Min THEN I16Min ELSE r

\* (sample as f64 * volume) as i16, the volume in hundredths.
ScaleSample(sample, v) == F64ToI16(sample * v, FullVolume)

\* a - b in usize when the subtraction is not checked: it wraps.
usize_sub(a, b) == (a - b) % (2 ^ UsizeBits)

\* PlayerUiData::next_song_idx and the closure wrapping_next (indices from 0).
wrapping_next(idx, song_number) ==
    IF idx = usize_sub(song_number, 1) THEN 0 ELSE idx + 1
\* the closure wrapping_prev
wrapping_prev(idx, song_number) ==
    IF idx = 0 THEN usize_sub(song_number, 1) ELSE idx - 1

\* disc_tracks[list[idx].session_no - 1]
SongTrack(idx) == DiscTracks[songs[idx + 1]]

\* An engine that answers each of the two state queries with the other's variant.
ReplyKindSwapped(kind) ==
    CASE kind = "GetIsPaused" -> "Position"
      [] kind = "GetPosition" -> "IsPaused"
      [] kind = "StopAndWait" -> "Stopped"
      [] OTHER -> "None"

\* The result variant the engine answers each query with.
ReplyKind(kind) ==
    CASE kind = "GetIsPaused" -> "IsPaused"
      [] kind = "GetPosition" -> "Position"
      [] kind = "StopAndWait" -> "Stopped"
      [] OTHER -> "None"

IsQuery(c) == c.kind \in {"GetIsPaused", "GetPosition", "StopAndWait"}

\* A shutdown that reads the slot and leaves the stream in it.
take_peek(slot_value) == slot_value

\* Option::take: the slot is left empty.
take(slot_value) == FALSE

\* A channel without a bound: send never waits.
CanSendAlways(q, cap) == TRUE

\* SyncSender::send returns once the message is in the buffer.
CanSend(q, cap) == Len(q) < cap

----------------------------------------------------------------------------
(* Initial states *)

UiDefault ==
    [ui_state |-> "Starting", any_key_to_exit |-> FALSE,
     playing_song_idx |-> 0, selected_song_idx |-> 0,
     player_state |-> "Playing", current_position |-> 0, total_duration |-> 0,
     volume |-> FullVolume]

\* No Progress event has been emitted yet.
NoProgress == [by |-> "none", secs |-> << >>]

EngineInit ==
    /\ paused = TRUE
    /\ reader = [open |-> FALSE, pos |-> 0]
    /\ start_pos = 0
    /\ end_pos = 0
    /\ song_seconds = 0
    /\ volume = FullVolume
    /\ events = << >>
    /\ cmdq = << >>
    /\ resq = << >>
    /\ sampleq = << >>
    /\ nstopped = 0
    /\ late_push = FALSE
    /\ progress_log = NoProgress
    /\ data = [i \in 1..FrameSlots |-> EQUILIBRIUM]
    /\ got = [i \in 1..FrameSlots |-> FALSE]
    /\ slot = 0
    /\ pushed = << >>
    /\ played = << >>
    /\ quiet_cycles = 0
    /\ quiet_silence = 0

Idle == [pc |-> "idle", cmd |-> NoCmd, kont |-> "none", reply |-> NoResult]

\* The terminal application after Tui::new: nothing is started yet.
Init ==
    /\ EngineInit
    /\ eng = [pc |-> "unspawned", cur |-> NoCmd, prev |-> NoCmd]
    /\ audio_stream = FALSE
    /\ playback_handle = FALSE
    /\ handle_lock = "none"
    /\ ui_lock = "none"
    /\ ui = UiDefault
    /\ songs \in SongLists
    /\ ctl = Idle
    /\ bg = "unspawned"
    /\ bg_thread_started = FALSE
    /\ nkeys = 0
    /\ stream_writes = 0
    /\ track = NoTrack
    /\ offsets = NoOffsets

\* The process ends when the controller (the main thread) exits or panics.
Running == ctl.pc \notin {"exited", "panicked", "panicked_idx"}

----------------------------------------------------------------------------
(* The engine thread: the loop of start_global_playback_thread *)

\* The current_seconds of the Progress events among the events of one step.
ProgressSecs(evs) ==
    LET idx == {i \in 1..Len(evs) : evs[i].kind = "Progress"}
    IN  [i \in 1..Cardinality(idx) |->
            evs[CHOOSE j \in idx : Cardinality({k \in idx : k < j}) = i - 1].cur]

\* The Progress events since the last Goto or Seek that emitted one: such a
\* command starts the record again with its own event.
LogProgress(log, kind, evs) ==
    IF ProgressSecs(evs) = << >> THEN log
    ELSE IF kind \in {"Goto", "Seek"} THEN [by |-> kind, secs |-> ProgressSecs(evs)]
    ELSE [log EXCEPT !.secs = log.secs \o ProgressSecs(evs)]

\* The TUI's listener for Paused and Progress events.
ListenerUi(u, evs) ==
    LET P == SelectSeq(evs, LAMBDA e : e.kind = "Paused")
        G == SelectSeq(evs, LAMBDA e : e.kind = "Progress")
        u1 == IF P = << >> THEN u
              ELSE [u EXCEPT !.player_state =
                        IF P[Len(P)].flag THEN "Paused" ELSE "Playing"]
    IN  IF G = << >> THEN u1
        ELSE [u1 EXCEPT !.current_position = G[Len(G)].cur,
                        !.total_duration = G[Len(G)].total]

\* cmd_rx.try_recv(): the head of the mailbox.
TryRecv(q) == Head(q)

\* An engine that keeps looping after it has replied Stopped.
BreaksLoopNever(kind) == FALSE

\* StopAndWait is the one command that breaks out of the loop.
BreaksLoop(kind) == kind = "StopAndWait"

\* A Goto that starts playing whether or not a medium is open.
GotoPlaysAlways(open, play) == play

\* Goto: `if play` sits inside `if let Some(ref mut r) = reader`.
GotoPlays(open, play) == open /\ play

\* A Seek that repositions whether or not a medium is open.
SeekActsAlways(open) == TRUE

\* Seek: `if let Some(reader) = &mut reader`, nothing is done otherwise.
SeekActs(open) == open

\* An engine that reports `paused` only when the command changed it.
PausedEventOnChange(p) == IF p = paused THEN << >> ELSE << Paused(p) >>

\* Pause, Play, SetPaused: event_callback!(PlayerCallbackEvent::Paused(paused))
PausedEvent(p) == << Paused(p) >>

\* What applying one command does to the engine's locals: the match arms.
ApplyEffect(c) ==
    LET same == [paused |-> paused, reader |-> reader, start_pos |-> start_pos,
                 end_pos |-> end_pos, song_seconds |-> song_seconds,
                 volume |-> volume, events |-> << >>, reply |-> NoResult,
                 overflow |-> FALSE]
    IN  CASE c.kind = "Start" ->
               [same EXCEPT !.reader = [open |-> TRUE, pos |-> 0]]
          [] c.kind = "Goto" ->
               LET secs == (end_offset(c.track) - start_offset(c.track))
                               \div BYTES_ONE_SEC
                   play == GotoPlays(reader.open, c.flag)
               IN  [same EXCEPT
                      !.reader = IF reader.open
                                 THEN [open |-> TRUE, pos |-> start_offset(c.track)]
                                 ELSE reader,
                      !.paused = IF play THEN FALSE ELSE paused,
                      !.start_pos = start_offset(c.track),
                      !.end_pos = end_offset(c.track),
                      !.song_seconds = secs,
                      !.events = (IF play THEN << Paused(FALSE) >> ELSE << >>)
                                 \o << Progress(0, secs) >>]
          [] c.kind = "Pause" ->
               [same EXCEPT !.paused = TRUE, !.events = PausedEvent(TRUE)]
          [] c.kind = "Play" ->
               [same EXCEPT !.paused = FALSE, !.events = PausedEvent(FALSE)]
          [] c.kind = "SetPaused" ->
               [same EXCEPT !.paused = c.flag, !.events = PausedEvent(c.flag)]
          [] c.kind = "GetIsPaused" ->
               [same EXCEPT !.reply = Result(ReplyKind(c.kind), paused, 0)]
          [] c.kind = "GetPosition" ->
               IF reader.open /\ reader.pos < start_pos
               THEN [same EXCEPT !.overflow = TRUE]
               ELSE [same EXCEPT !.reply =
                        Result(ReplyKind(c.kind), FALSE,
                               IF reader.open THEN PositionOf(reader.pos, start_pos)
                               ELSE 0)]
          [] c.kind = "Seek" ->
               IF SeekActs(reader.open)
               THEN LET seek_pos == SeekPos(start_pos, c.arg)
                    IN  [same EXCEPT
                           !.reader = [open |-> TRUE, pos |-> seek_pos],
                           !.events = << Progress((seek_pos - start_pos)
                                                     \div BYTES_ONE_SEC,
                                                  song_seconds) >>]
               ELSE same
          [] c.kind = "ChangeVolume" ->
               [same EXCEPT !.volume = c.arg]
          [] c.kind = "StopAndWait" ->
               [same EXCEPT !.reply = Result(ReplyKind(c.kind), FALSE, 0)]

\* loop { match cmd_rx.try_recv() { ... } }: take the command, if there is one.
EnginePoll ==
    /\ Running
    /\ eng.pc = "poll"
    /\ IF cmdq = << >>
       THEN /\ eng' = [pc |-> "tick", cur |-> NoCmd, prev |-> eng.cur]
            /\ cmdq' = cmdq
       ELSE /\ eng' = [pc |-> "apply", cur |-> TryRecv(cmdq), prev |-> eng.cur]
            /\ cmdq' = Tail(cmdq)
    /\ UNCHANGED <<engine_locals, events, resq, sampleq, audio_stream,
                   playback_handle, handle_lock, ui_lock, ui, songs, ctl, bg,
                   bg_thread_started, nkeys, nstopped, late_push>>
    /\ UNCHANGED <<stream_writes, progress_log, audio_obs, track_obs>>

\* The match arm of the command taken, with the listener calls it makes and the
\* reply it sends; result_tx.send blocks while the result mailbox is full.
EngineApply ==
    /\ Running
    /\ eng.pc = "apply"
    /\ LET e == ApplyEffect(eng.cur)
           replies == e.reply # NoResult
       IN  /\ replies => CanSend(resq, ResultCapacity)
           /\ paused' = e.paused
           /\ reader' = e.reader
           /\ start_pos' = e.start_pos
           /\ end_pos' = e.end_pos
           /\ song_seconds' = e.song_seconds
           /\ volume' = e.volume
           /\ events' = e.events
           /\ ui' = ListenerUi(ui, e.events)
           /\ resq' = IF replies THEN Append(resq, e.reply) ELSE resq
           /\ nstopped' = IF e.reply = Stopped THEN nstopped + 1 ELSE nstopped
           /\ progress_log' = LogProgress(progress_log, eng.cur.kind, e.events)
           /\ eng' = [eng EXCEPT !.pc =
                        IF e.overflow THEN "overflow"
                        ELSE IF BreaksLoop(eng.cur.kind) THEN "exited"
                        ELSE "tick"]
    /\ UNCHANGED <<cmdq, sampleq, audio_stream, playback_handle, handle_lock,
                   ui_lock, songs, ctl, bg, bg_thread_started, nkeys, late_push>>
    /\ UNCHANGED <<stream_writes, audio_obs, track_obs>>

\* A sample section that does not look at `paused`.
PlayingWhilePaused == reader.open

\* if !paused && let Some(r) = reader: the condition of the sample section.
Playing == ~paused /\ reader.open

\* The sample section is skipped: paused, or no medium open.
EngineSkip ==
    /\ Running
    /\ eng.pc = "tick"
    /\ ~Playing
    /\ eng' = [eng EXCEPT !.pc = "poll"]
    /\ events' = << >>
    /\ UNCHANGED <<engine_locals, cmdq, resq, sampleq, audio_stream,
                   playback_handle, handle_lock, ui_lock, ui, songs, ctl, bg,
                   bg_thread_started, nkeys, nstopped, late_push>>
    /\ UNCHANGED <<stream_writes, progress_log, audio_obs, track_obs>>

\* An end test that lets the cursor reach end_pos before it stops.
AtEndLate(pos, end) == pos > end

\* pos >= end_pos: the end of the playing song.
AtEnd(pos, end) == pos >= end

\* The sample section: read one sample, scale it, push it (sample_tx.send blocks
\* while the output queue is full), and emit Progress on a whole second.
EngineSample ==
    /\ Running
    /\ eng.pc = "tick"
    /\ Playing
    /\ ~AtEnd(reader.pos, end_pos)
    /\ CanSend(sampleq, SampleCapacity)
    /\ LET pos == reader.pos
           overflow == pos < start_pos
           whole == ~overflow /\ (pos - start_pos) % BYTES_ONE_SEC = 0
       IN  /\ reader' = [reader EXCEPT !.pos = pos + BYTES_PER_SAMPLE]
           /\ sampleq' = Append(sampleq, ScaleSample(MediumSample(pos), volume))
           /\ late_push' = (late_push \/ nstopped > 0)
           /\ events' = IF whole
                        THEN << Progress((pos - start_pos) \div BYTES_ONE_SEC,
                                         song_seconds) >>
                        ELSE << >>
           /\ ui' = ListenerUi(ui, events')
           /\ progress_log' = LogProgress(progress_log, "none", events')
           /\ eng' = [eng EXCEPT !.pc = IF overflow THEN "overflow" ELSE "poll"]
    /\ UNCHANGED <<paused, start_pos, end_pos, song_seconds, volume, cmdq, resq,
                   audio_stream, playback_handle, handle_lock, ui_lock, songs,
                   ctl, bg, bg_thread_started, nkeys, nstopped>>
    /\ UNCHANGED <<stream_writes, audio_obs, track_obs>>

\* The end of the song with the TUI's listener: under the ui_data lock it moves
\* playing_song_idx on, and then wants the PLAYBACK_HANDLE lock.
EngineFinishedTui ==
    /\ Running
    /\ eng.pc = "tick"
    /\ Playing
    /\ AtEnd(reader.pos, end_pos)
    /\ ui_lock = "none"
    /\ ui_lock' = "eng"
    /\ ui' = [ui EXCEPT !.playing_song_idx =
                 wrapping_next(ui.playing_song_idx, Len(songs))]
    /\ events' = << Finished >>
    /\ eng' = [eng EXCEPT !.pc = "fin_lock"]
    /\ UNCHANGED <<engine_locals, cmdq, resq, sampleq, audio_stream,
                   playback_handle, handle_lock, songs, ctl, bg,
                   bg_thread_started, nkeys, nstopped, late_push>>
    /\ UNCHANGED <<stream_writes, progress_log, audio_obs, track_obs>>

\* The Finished listener: mutex_lock!(PLAYBACK_HANDLE).
EngineFinishedLock ==
    /\ Running
    /\ eng.pc = "fin_lock"
    /\ handle_lock = "none"
    /\ handle_lock' = "eng"
    /\ eng' = [eng EXCEPT !.pc = "fin_send"]
    /\ UNCHANGED <<engine_locals, events, cmdq, resq, sampleq, audio_stream,
                   playback_handle, ui_lock, ui, songs, ctl, bg,
                   bg_thread_started, nkeys, nstopped, late_push>>
    /\ UNCHANGED <<stream_writes, progress_log, audio_obs, track_obs>>

\* The Finished listener: .send(PlayerCommand::Goto(next_track, true)), then both
\* guards are dropped and the loop continues.
EngineFinishedSend ==
    /\ Running
    /\ eng.pc = "fin_send"
    /\ CanSend(cmdq, CmdCapacity)
    /\ cmdq' = Append(cmdq, Goto(SongTrack(ui.playing_song_idx), TRUE, "eng"))
    /\ handle_lock' = "none"
    /\ ui_lock' = "none"
    /\ eng' = [eng EXCEPT !.pc = "poll"]
    /\ UNCHANGED <<engine_locals, events, resq, sampleq, audio_stream,
                   playback_handle, ui, songs, ctl, bg, bg_thread_started,
                   nkeys, nstopped, late_push>>
    /\ UNCHANGED <<stream_writes, progress_log, audio_obs, track_obs>>

\* play_fn: the audio callback takes a queued sample (rx.try_recv()).
AudioCallback ==
    /\ Running
    /\ audio_stream
    /\ sampleq # << >>
    /\ sampleq' = Tail(sampleq)
    /\ UNCHANGED <<engine_locals, eng, events, cmdq, resq, audio_stream,
                   playback_handle, handle_lock, ui_lock, ui, songs, ctl, bg,
                   bg_thread_started, nkeys, nstopped, late_push>>
    /\ UNCHANGED <<stream_writes, progress_log, audio_obs, track_obs>>

----------------------------------------------------------------------------
(* The background thread: Tui::background_thread, spawned by the first tick *)

\* The burst with its two commands in the other order.
InitBurstReversed == << Goto(SongTrack(0), TRUE, "bg"), Start("bg") >>

\* send_commands([Start, Goto(tracks[first_song.session_no - 1], true)])
InitBurst == << Start("bg"), Goto(SongTrack(0), TRUE, "bg") >>

\* Tui::tick: the first tick spawns the background thread.
CtlSpawn ==
    /\ Running
    /\ ctl.pc = "idle"
    /\ ~bg_thread_started
    /\ bg_thread_started' = TRUE
    /\ bg' = "init"
    /\ UNCHANGED <<engine_locals, eng, events, cmdq, resq, sampleq, audio_stream,
                   playback_handle, handle_lock, ui_lock, ui, songs, ctl, nkeys,
                   nstopped, late_push>>
    /\ UNCHANGED <<stream_writes, progress_log, audio_obs, track_obs>>

\* Any step before the engine is started fails (cdrskin, the track list, the meta
\* info, the audio device): the spawned closure shows the error screen.
BgFail ==
    /\ Running
    /\ bg = "init"
    /\ ui_lock = "none"
    /\ ui' = [ui EXCEPT !.ui_state = "Error", !.any_key_to_exit = TRUE]
    /\ bg' = "failed"
    /\ UNCHANGED <<engine_locals, eng, events, cmdq, resq, sampleq, audio_stream,
                   playback_handle, handle_lock, ui_lock, songs, ctl,
                   bg_thread_started, nkeys, nstopped, late_push>>
    /\ UNCHANGED <<stream_writes, progress_log, audio_obs, track_obs>>

\* start_global_playback_thread: the stream is put in AUDIO_STREAM and the engine
\* thread is spawned.
BgStartPlayback ==
    /\ Running
    /\ bg = "init"
    /\ audio_stream' = TRUE
    /\ stream_writes' = stream_writes + 1
    /\ eng' = [eng EXCEPT !.pc = "poll"]
    /\ bg' = "spawned"
    /\ UNCHANGED <<engine_locals, events, cmdq, resq, sampleq, playback_handle,
                   handle_lock, ui_lock, ui, songs, ctl, bg_thread_started,
                   nkeys, nstopped, late_push>>
    /\ UNCHANGED <<progress_log, audio_obs, track_obs>>

\* set_global_playback_handle
BgSetHandle ==
    /\ Running
    /\ bg = "spawned"
    /\ handle_lock = "none"
    /\ playback_handle' = TRUE
    /\ bg' = "handle_set"
    /\ UNCHANGED <<engine_locals, eng, events, cmdq, resq, sampleq, audio_stream,
                   handle_lock, ui_lock, ui, songs, ctl, bg_thread_started,
                   nkeys, nstopped, late_push>>
    /\ UNCHANGED <<stream_writes, progress_log, audio_obs, track_obs>>

\* mutex_lock!(ui_data).ui_state = AppUiState::Player
BgPlayer ==
    /\ Running
    /\ bg = "handle_set"
    /\ ui_lock = "none"
    /\ ui' = [ui EXCEPT !.ui_state = "Player"]
    /\ bg' = IF Len(songs) > 0 THEN "lock" ELSE "done"
    /\ UNCHANGED <<engine_locals, eng, events, cmdq, resq, sampleq, audio_stream,
                   playback_handle, handle_lock, ui_lock, songs, ctl,
                   bg_thread_started, nkeys, nstopped, late_push>>
    /\ UNCHANGED <<stream_writes, progress_log, audio_obs, track_obs>>

\* mutex_lock!(PLAYBACK_HANDLE), held over the whole send_commands call
BgLock ==
    /\ Running
    /\ bg = "lock"
    /\ handle_lock = "none"
    /\ handle_lock' = "bg"
    /\ bg' = "send1"
    /\ UNCHANGED <<engine_locals, eng, events, cmdq, resq, sampleq, audio_stream,
                   playback_handle, ui_lock, ui, songs, ctl, bg_thread_started,
                   nkeys, nstopped, late_push>>
    /\ UNCHANGED <<stream_writes, progress_log, audio_obs, track_obs>>

\* send_commands: the first send
BgSend1 ==
    /\ Running
    /\ bg = "send1"
    /\ CanSend(cmdq, CmdCapacity)
    /\ cmdq' = Append(cmdq, InitBurst[1])
    /\ bg' = "send2"
    /\ UNCHANGED <<engine_locals, eng, events, resq, sampleq, audio_stream,
                   playback_handle, handle_lock, ui_lock, ui, songs, ctl,
                   bg_thread_started, nkeys, nstopped, late_push>>
    /\ UNCHANGED <<stream_writes, progress_log, audio_obs, track_obs>>

\* send_commands: the second send; the guard is dropped after it
BgSend2 ==
    /\ Running
    /\ bg = "send2"
    /\ CanSend(cmdq, CmdCapacity)
    /\ cmdq' = Append(cmdq, InitBurst[2])
    /\ handle_lock' = "none"
    /\ bg' = "done"
    /\ UNCHANGED <<engine_locals, eng, events, resq, sampleq, audio_stream,
                   playback_handle, ui_lock, ui, songs, ctl, bg_thread_started,
                   nkeys, nstopped, late_push>>
    /\ UNCHANGED <<stream_writes, progress_log, audio_obs, track_obs>>

----------------------------------------------------------------------------
(* The controller thread: Tui::tick, handle_events, clean_up_and_exit *)

Keys == {"q", "n", "p", "j", "k", "h", "l", "enter", "space", ",", "."}

\* A statement mutex_lock!(PLAYBACK_HANDLE).as_ref().unwrap().send(c) or
\* .send_recv(c) about to run; kont says what the handler does with the reply.
Call(c, kont) == [pc |-> "lock", cmd |-> c, kont |-> kont, reply |-> NoResult]

\* The main thread has panicked in handle_events on an index: a subtraction
\* that overflowed, or a song list indexed out of its bounds.
IndexPanic == [Idle EXCEPT !.pc = "panicked_idx"]

\* player_goto_playing_one: meta_info.list[playing_song_idx] panics when the
\* index is out of bounds; otherwise the Goto is sent.
GotoPlayingOne(i) ==
    IF i < Len(songs) THEN Call(Goto(SongTrack(i), TRUE, "ctl"), "none")
    ELSE IndexPanic

\* A volume-down key that does not stop at silence.
VolumeDownUnclamped(v) == v - VolumeStep

\* *volume -= 0.01; if *volume <= 0.0 { *volume = 0.0 }
VolumeDown(v) == IF v - VolumeStep <= 0 THEN 0 ELSE v - VolumeStep

\* *volume += 0.01; if *volume >= 1.0 { *volume = 1.0 }
VolumeUp(v) == IF v + VolumeStep >= FullVolume THEN FullVolume ELSE v + VolumeStep

\* The key makes a closure compute song_number - 1 with song_number = 0.
KeyOverflows(k) ==
    /\ Len(songs) = 0
    /\ \/ k \in {"n", "j"}
       \/ k = "p" /\ ui.playing_song_idx = 0
       \/ k = "k" /\ ui.selected_song_idx = 0

\* handle_events: what a key does to the UI data and which statement on the
\* playback handle it starts.
KeyEffect(k) ==
    LET n == Len(songs)
        same == [ui |-> ui, ctl |-> ctl]
    IN  CASE k = "n" ->
               LET i == wrapping_next(ui.playing_song_idx, n)
               IN  [ui |-> [ui EXCEPT !.playing_song_idx = i],
                    ctl |-> GotoPlayingOne(i)]
          [] k = "p" ->
               LET i == wrapping_prev(ui.playing_song_idx, n)
               IN  [ui |-> [ui EXCEPT !.playing_song_idx = i],
                    ctl |-> GotoPlayingOne(i)]
          [] k = "j" ->
               [same EXCEPT !.ui.selected_song_idx =
                   wrapping_next(ui.selected_song_idx, n)]
          [] k = "k" ->
               [same EXCEPT !.ui.selected_song_idx =
                   wrapping_prev(ui.selected_song_idx, n)]
          [] k = "h" -> [same EXCEPT !.ctl = Call(GetPosition("ctl"), "seek_back")]
          [] k = "l" -> [same EXCEPT !.ctl = Call(GetPosition("ctl"), "seek_fwd")]
          [] k = "enter" ->
               [ui |-> [ui EXCEPT !.playing_song_idx = ui.selected_song_idx],
                ctl |-> GotoPlayingOne(ui.selected_song_idx)]
          [] k = "space" -> [same EXCEPT !.ctl = Call(GetIsPaused("ctl"), "toggle")]
          [] k = "," ->
               LET v == VolumeDown(ui.volume)
               IN  [ui |-> [ui EXCEPT !.volume = v],
                    ctl |-> Call(ChangeVolume(v, "ctl"), "none")]
          [] k = "." ->
               LET v == VolumeUp(ui.volume)
               IN  [ui |-> [ui EXCEPT !.volume = v],
                    ctl |-> Call(ChangeVolume(v, "ctl"), "none")]
          [] OTHER -> same

\* One tick with a key event: draw, handle_events, and clean_up_and_exit when
\* should_quit was set.  An overflowing subtraction panics when the build
\* checks overflows and wraps when it does not.
CtlKey(k) ==
    /\ Running
    /\ ctl.pc = "idle"
    /\ bg_thread_started
    /\ ui_lock = "none"
    /\ nkeys < MaxKeys
    /\ LET quit == k = "q" \/ ui.any_key_to_exit
           player == ui.ui_state = "Player"
           e == KeyEffect(k)
       IN  /\ quit \/ player
           /\ \E overflow_checks \in BOOLEAN :
                 IF player /\ KeyOverflows(k) /\ overflow_checks
                 THEN ui' = ui /\ ctl' = IndexPanic
                 ELSE /\ ui' = IF player THEN e.ui ELSE ui
                      /\ ctl' = IF quit THEN Call(StopAndWait("ctl"), "exit")
                                ELSE e.ctl
    /\ nkeys' = nkeys + 1
    /\ UNCHANGED <<engine_locals, eng, events, cmdq, resq, sampleq, audio_stream,
                   playback_handle, handle_lock, ui_lock, songs, bg,
                   bg_thread_started, nstopped, late_push>>
    /\ UNCHANGED <<stream_writes, progress_log, audio_obs, track_obs>>

\* mutex_lock!(PLAYBACK_HANDLE).as_ref().unwrap(): unwrap panics on an empty slot.
CtlLock ==
    /\ Running
    /\ ctl.pc = "lock"
    /\ handle_lock = "none"
    /\ IF playback_handle
       THEN /\ handle_lock' = "ctl"
            /\ ctl' = [ctl EXCEPT !.pc = "send"]
       ELSE /\ handle_lock' = handle_lock
            /\ ctl' = [ctl EXCEPT !.pc = "panicked"]
    /\ UNCHANGED <<engine_locals, eng, events, cmdq, resq, sampleq, audio_stream,
                   playback_handle, ui_lock, ui, songs, bg, bg_thread_started,
                   nkeys, nstopped, late_push>>
    /\ UNCHANGED <<stream_writes, progress_log, audio_obs, track_obs>>

\* PlaybackHandle::send: command_tx.send(cmd) blocks while the mailbox is full.
\* A plain send ends the statement and drops the guard; send_recv goes on to
\* player_result.
CtlSend ==
    /\ Running
    /\ ctl.pc = "send"
    /\ CanSend(cmdq, CmdCapacity)
    /\ cmdq' = Append(cmdq, ctl.cmd)
    /\ IF ctl.kont = "none"
       THEN /\ ctl' = Idle
            /\ handle_lock' = "none"
       ELSE /\ ctl' = [ctl EXCEPT !.pc = "recv"]
            /\ handle_lock' = handle_lock
    /\ UNCHANGED <<engine_locals, eng, events, resq, sampleq, audio_stream,
                   playback_handle, ui_lock, ui, songs, bg, bg_thread_started,
                   nkeys, nstopped, late_push>>
    /\ UNCHANGED <<stream_writes, progress_log, audio_obs, track_obs>>

\* p -= 5.0; if p < 0.0 { p = 0.0 }
SeekBackTarget(p) ==
    IF p - SeekStepSeconds * BYTES_ONE_SEC < 0 THEN 0
    ELSE p - SeekStepSeconds * BYTES_ONE_SEC

\* p += 5.0; if p >= duration { p = duration - 1.0 }
SeekFwdTarget(p, duration) ==
    IF p + SeekStepSeconds * BYTES_ONE_SEC >= duration THEN duration - BYTES_ONE_SEC
    ELSE p + SeekStepSeconds * BYTES_ONE_SEC

\* The variant each handler's let-else pattern accepts.
ExpectedKind(kont) ==
    CASE kont = "seek_back" -> "Position"
      [] kont = "seek_fwd" -> "Position"
      [] kont = "toggle" -> "IsPaused"
      [] kont = "exit" -> "Stopped"
      [] OTHER -> "None"

\* PlaybackHandle::player_result: guard.recv() blocks until the engine replies.
\* Then the statement's let-else checks the variant and the handler goes on.
CtlRecv ==
    /\ Running
    /\ ctl.pc = "recv"
    /\ resq # << >>
    /\ resq' = Tail(resq)
    /\ handle_lock' = "none"
    /\ LET r == Head(resq)
       IN  IF r.kind # ExpectedKind(ctl.kont)
           THEN /\ ctl' = [ctl EXCEPT !.pc = "panicked", !.reply = r]
                /\ audio_stream' = audio_stream
           ELSE CASE ctl.kont = "seek_back" ->
                       /\ ctl' = Call(Seek(SeekBackTarget(r.pos), "ctl"), "none")
                       /\ audio_stream' = audio_stream
                  [] ctl.kont = "seek_fwd" ->
                       /\ ctl' = [ctl EXCEPT !.pc = "fwd", !.reply = r]
                       /\ audio_stream' = audio_stream
                  [] ctl.kont = "toggle" ->
                       /\ ctl' = Call(SetPaused(~r.flag, "ctl"), "none")
                       /\ audio_stream' = audio_stream
                  [] OTHER ->
                       \* clean_up_and_exit: drop(AUDIO_STREAM.take()); exit(0)
                       /\ ctl' = [ctl EXCEPT !.pc = "exited", !.reply = r]
                       /\ audio_stream' = take(audio_stream)
    /\ stream_writes' = IF ctl'.pc = "exited" THEN stream_writes + 1
                         ELSE stream_writes
    /\ UNCHANGED <<engine_locals, eng, events, cmdq, sampleq, playback_handle,
                   ui_lock, ui, songs, bg, bg_thread_started, nkeys, nstopped,
                   late_push>>
    /\ UNCHANGED <<progress_log, audio_obs, track_obs>>

\* Seek forward: playing_track!() takes the ui_data lock, then the target is
\* computed from the track's size and sent.
CtlFwd ==
    /\ Running
    /\ ctl.pc = "fwd"
    /\ ui_lock = "none"
    /\ LET song_track == SongTrack(ui.playing_song_idx)
           duration == duration_from_bytes(size_bytes(song_track))
       IN  ctl' = IF ui.playing_song_idx < Len(songs)
                  THEN Call(Seek(SeekFwdTarget(ctl.reply.pos, duration), "ctl"),
                            "none")
                  ELSE IndexPanic
    /\ UNCHANGED <<engine_locals, eng, events, cmdq, resq, sampleq, audio_stream,
                   playback_handle, handle_lock, ui_lock, ui, songs, bg,
                   bg_thread_started, nkeys, nstopped, late_push>>
    /\ UNCHANGED <<stream_writes, progress_log, audio_obs, track_obs>>

----------------------------------------------------------------------------
(* The terminal application *)

Next ==
    \/ CtlSpawn
    \/ BgFail
    \/ BgStartPlayback
    \/ BgSetHandle
    \/ BgPlayer
    \/ BgLock
    \/ BgSend1
    \/ BgSend2
    \/ \E k \in Keys : CtlKey(k)
    \/ CtlLock
    \/ CtlSend
    \/ CtlRecv
    \/ CtlFwd
    \/ EnginePoll
    \/ EngineApply
    \/ EngineSkip
    \/ EngineSample
    \/ EngineFinishedTui
    \/ EngineFinishedLock
    \/ EngineFinishedSend
    \/ AudioCallback

Spec == Init /\ [][Next]_vars

\* The steps of each thread.  A thread that can run does run; a thread waiting
\* for a lock or a channel gets it if it becomes available again and again; the
\* user need not press keys.
EngineNext ==
    \/ EnginePoll \/ EngineApply \/ EngineSkip \/ EngineSample
    \/ EngineFinishedTui \/ EngineFinishedLock \/ EngineFinishedSend
CtlNext == CtlSpawn \/ CtlLock \/ CtlSend \/ CtlRecv \/ CtlFwd
BgNext == BgStartPlayback \/ BgSetHandle \/ BgPlayer \/ BgLock \/ BgSend1 \/ BgSend2

FairSpec ==
    /\ Init /\ [][Next]_vars
    /\ SF_vars(EngineNext)
    /\ SF_vars(CtlNext)
    /\ SF_vars(BgNext)
    /\ WF_vars(AudioCallback)

----------------------------------------------------------------------------
(* The terminal application on the player screen, after volume keys have    *)
(* brought the volume next to one of its limits: the background thread has  *)
(* shown the player screen and has not yet sent its first commands, the     *)
(* engine has applied every ChangeVolume sent so far.                       *)

\* Volume levels next to the limits, in hundredths.
VolumeLevels == {VolumeStep, FullVolume - VolumeStep}

InitVolume ==
    /\ paused = TRUE
    /\ reader = [open |-> FALSE, pos |-> 0]
    /\ start_pos = 0
    /\ end_pos = 0
    /\ song_seconds = 0
    /\ volume \in VolumeLevels
    /\ events = << >>
    /\ cmdq = << >>
    /\ resq = << >>
    /\ sampleq = << >>
    /\ nstopped = 0
    /\ late_push = FALSE
    /\ progress_log = NoProgress
    /\ data = [i \in 1..FrameSlots |-> EQUILIBRIUM]
    /\ got = [i \in 1..FrameSlots |-> FALSE]
    /\ slot = 0
    /\ pushed = << >>
    /\ played = << >>
    /\ quiet_cycles = 0
    /\ quiet_silence = 0
    /\ eng = [pc |-> "poll", cur |-> ChangeVolume(volume, "ctl"), prev |-> NoCmd]
    /\ audio_stream = TRUE
    /\ playback_handle = TRUE
    /\ handle_lock = "none"
    /\ ui_lock = "none"
    /\ ui = [UiDefault EXCEPT !.ui_state = "Player", !.volume = volume]
    /\ songs \in SongLists
    /\ ctl = Idle
    /\ bg = IF Len(songs) > 0 THEN "lock" ELSE "done"
    /\ bg_thread_started = TRUE
    /\ nkeys = 0
    /\ stream_writes = 1
    /\ track = NoTrack
    /\ offsets = NoOffsets

NextVolume ==
    \/ BgLock
    \/ BgSend1
    \/ BgSend2
    \/ \E k \in Keys : CtlKey(k)
    \/ CtlLock
    \/ CtlSend
    \/ CtlRecv
    \/ CtlFwd
    \/ EnginePoll
    \/ EngineApply
    \/ EngineSkip
    \/ EngineSample
    \/ EngineFinishedTui
    \/ EngineFinishedLock
    \/ EngineFinishedSend
    \/ AudioCallback

SpecVolume == InitVolume /\ [][NextVolume]_vars

----------------------------------------------------------------------------
(* A client of the library: it holds the PlaybackHandle that                *)
(* start_global_playback_thread returned and drives the engine with send    *)
(* and send_recv; its listener only records the events.                     *)

\* Seek targets in ticks: negative, an odd sample count, an even one, and one
\* past the end of every track.
SeekArgs == {-BYTES_ONE_SEC, 3, 6, 2 * SECTOR_SIZE + 1}
\* Volume levels in hundredths: below the range, inside it and above it.
VolumeArgs == {-50, 50, 150}

\* The tracks the client goes to: the disc's songs, and the first track of an
\* image that starts with two sectors of audio.
ApiTracks == {DiscTracks[2], DiscTracks[3], Track(1, 0, 2, 2)}

ApiCommands ==
    {Start("api"), Pause("api"), Play("api"), GetPosition("api"),
     GetIsPaused("api"), StopAndWait("api")}
    \cup {Goto(t, b, "api") : t \in ApiTracks, b \in BOOLEAN}
    \cup {Seek(p, "api") : p \in SeekArgs}
    \cup {SetPaused(b, "api") : b \in BOOLEAN}
    \cup {ChangeVolume(v, "api") : v \in VolumeArgs}

\* The state after start_global_playback_thread returned Ok(handle).
InitApi ==
    /\ EngineInit
    /\ eng = [pc |-> "poll", cur |-> NoCmd, prev |-> NoCmd]
    /\ audio_stream = TRUE
    /\ playback_handle = FALSE
    /\ handle_lock = "none"
    /\ ui_lock = "none"
    /\ ui = UiDefault
    /\ songs = << 2 >>
    /\ ctl = Idle
    /\ bg = "none"
    /\ bg_thread_started = FALSE
    /\ nkeys = 0
    /\ stream_writes = 1
    /\ track = NoTrack
    /\ offsets = NoOffsets

\* PlaybackHandle::send, and the send of send_recv for a query.
ApiSend(c) ==
    /\ ctl.pc = "idle"
    /\ nkeys < MaxCmds
    /\ CanSend(cmdq, CmdCapacity)
    /\ cmdq' = Append(cmdq, c)
    /\ ctl' = IF IsQuery(c) THEN [Idle EXCEPT !.pc = "recv", !.cmd = c]
              ELSE Idle
    /\ nkeys' = nkeys + 1
    /\ UNCHANGED <<engine_locals, eng, events, resq, sampleq, audio_stream,
                   playback_handle, handle_lock, ui_lock, ui, songs, bg,
                   bg_thread_started, nstopped, late_push>>
    /\ UNCHANGED <<stream_writes, progress_log, audio_obs, track_obs>>

\* PlaybackHandle::player_result; after Stopped the client sends nothing more.
ApiRecv ==
    /\ ctl.pc = "recv"
    /\ resq # << >>
    /\ resq' = Tail(resq)
    /\ ctl' = [ctl EXCEPT !.pc = IF ctl.cmd.kind = "StopAndWait" THEN "done"
                                 ELSE "idle",
                          !.reply = Head(resq)]
    /\ UNCHANGED <<engine_locals, eng, events, cmdq, sampleq, audio_stream,
                   playback_handle, handle_lock, ui_lock, ui, songs, bg,
                   bg_thread_started, nkeys, nstopped, late_push>>
    /\ UNCHANGED <<stream_writes, progress_log, audio_obs, track_obs>>

\* The end of the song with a listener that only records: emit Finished, continue.
EngineFinishedApi ==
    /\ eng.pc = "tick"
    /\ Playing
    /\ AtEnd(reader.pos, end_pos)
    /\ events' = << Finished >>
    /\ eng' = [eng EXCEPT !.pc = "poll"]
    /\ UNCHANGED <<engine_locals, cmdq, resq, sampleq, audio_stream,
                   playback_handle, handle_lock, ui_lock, ui, songs, ctl, bg,
                   bg_thread_started, nkeys, nstopped, late_push>>
    /\ UNCHANGED <<stream_writes, progress_log, audio_obs, track_obs>>

NextApi ==
    \/ \E c \in ApiCommands : ApiSend(c)
    \/ ApiRecv
    \/ EnginePoll
    \/ EngineApply
    \/ EngineSkip
    \/ EngineSample
    \/ EngineFinishedApi
    \/ AudioCallback

SpecApi == InitApi /\ [][NextApi]_vars

----------------------------------------------------------------------------
(* The audio callback observed: play_fn fills the buffer `data` slot by slot *)
(* while a producer sends samples on sample_tx as the engine's sample       *)
(* section does.                                                            *)

\* The samples the medium holds.
Samples == {MediumSample(0), MediumSample(BYTES_PER_SAMPLE)}

\* A callback that writes something else than silence into an empty slot.
TryRecvOrNoise(q, default) == IF q = << >> THEN default - 1 ELSE Head(q)

\* rx.try_recv().unwrap_or(default)
TryRecvOr(q, default) == IF q = << >> THEN default ELSE Head(q)

InitAudio ==
    /\ EngineInit
    /\ eng = [pc |-> "poll", cur |-> NoCmd, prev |-> NoCmd]
    /\ audio_stream = TRUE
    /\ playback_handle = FALSE
    /\ handle_lock = "none"
    /\ ui_lock = "none"
    /\ ui = UiDefault
    /\ songs = << 2 >>
    /\ ctl = Idle
    /\ bg = "none"
    /\ bg_thread_started = FALSE
    /\ nkeys = 0
    /\ stream_writes = 1
    /\ track = NoTrack
    /\ offsets = NoOffsets

\* sample_tx.send(sample): blocks while the output queue is full.
SampleTxSend(sample) ==
    /\ Len(pushed) < MaxPush
    /\ CanSend(sampleq, SampleCapacity)
    /\ sampleq' = Append(sampleq, sample)
    /\ pushed' = Append(pushed, sample)
    /\ UNCHANGED <<engine_locals, eng, events, cmdq, resq, audio_stream,
                   playback_handle, handle_lock, ui_lock, ui, songs, ctl, bg,
                   bg_thread_started, nkeys, nstopped, late_push, progress_log,
                   stream_writes, data, got, slot, played, quiet_cycles,
                   quiet_silence, track_obs>>

\* play_fn, one slot of `for x in data.iter_mut()`: the slot takes the next
\* queued sample, or the silence value when there is none; after the last slot
\* the callback returns.
PlayFnSlot ==
    /\ audio_stream
    /\ quiet_cycles < MaxQuiet
    /\ LET ok == sampleq # << >>
           x == TryRecvOr(sampleq, EQUILIBRIUM)
           last == slot + 1 = FrameSlots
           data1 == [data EXCEPT ![slot + 1] = x]
           got1 == [got EXCEPT ![slot + 1] = ok]
           quiet == \A i \in 1..FrameSlots : ~got1[i]
           silent == Cardinality({i \in 1..FrameSlots : data1[i] = EQUILIBRIUM})
       IN  /\ data' = data1
           /\ got' = got1
           /\ sampleq' = IF ok THEN Tail(sampleq) ELSE sampleq
           /\ played' = IF ok THEN Append(played, x) ELSE played
           /\ slot' = IF last THEN 0 ELSE slot + 1
           /\ quiet_cycles' = IF ~last THEN quiet_cycles
                              ELSE IF quiet THEN quiet_cycles + 1 ELSE 0
           /\ quiet_silence' = IF ~last THEN quiet_silence
                               ELSE IF quiet THEN quiet_silence + silent ELSE 0
    /\ UNCHANGED <<engine_locals, eng, events, cmdq, resq, audio_stream,
                   playback_handle, handle_lock, ui_lock, ui, songs, ctl, bg,
                   bg_thread_started, nkeys, nstopped, late_push, progress_log,
                   stream_writes, pushed, track_obs>>

NextAudio ==
    \/ \E sample \in Samples : SampleTxSend(sample)
    \/ PlayFnSlot

SpecAudio == InitAudio /\ [][NextAudio]_vars

----------------------------------------------------------------------------
(* The byte offsets of a track: Track::start_offset and Track::end_offset   *)
(* applied to an entry of the catalog, at the disc's sector size.           *)

\* Sector addresses of catalog entries: small ones, and those of a track that
\* lies well inside the disc.
Addrs == 0..MaxAddr \cup {100, 200}

\* Catalog entries, in either order of their two addresses.
CatalogTracks == {Track(1, a, b, IF b >= a THEN b - a ELSE 0) : a, b \in Addrs}

InitTrack ==
    /\ EngineInit
    /\ eng = [pc |-> "poll", cur |-> NoCmd, prev |-> NoCmd]
    /\ audio_stream = TRUE
    /\ playback_handle = FALSE
    /\ handle_lock = "none"
    /\ ui_lock = "none"
    /\ ui = UiDefault
    /\ songs = << 2 >>
    /\ ctl = Idle
    /\ bg = "none"
    /\ bg_thread_started = FALSE
    /\ nkeys = 0
    /\ stream_writes = 1
    /\ track \in CatalogTracks
    /\ offsets = NoOffsets

\* track.start_offset() and track.end_offset()
TrackOffsets ==
    /\ offsets = NoOffsets
    /\ offsets' = [start |-> SectorOffset(track.start_addr, DISC_SECTOR_SIZE),
                   end |-> SectorOffset(track.end_addr, DISC_SECTOR_SIZE)]
    /\ UNCHANGED <<engine_locals, eng, events, cmdq, resq, sampleq, audio_stream,
                   playback_handle, handle_lock, ui_lock, ui, songs, ctl, bg,
                   bg_thread_started, nkeys, nstopped, late_push, progress_log,
                   stream_writes, audio_obs, track>>

NextTrack == TrackOffsets

SpecTrack == InitTrack /\ [][NextTrack]_vars

----------------------------------------------------------------------------
(* Claims *)

\* The command the engine took in this iteration has been applied in full.
Applied(kind) == eng.cur.kind = kind /\ eng.pc \in {"tick", "poll", "fin_lock", "fin_send"}

\* C1: the commands of a send_commands burst are applied in the order sent: the
\* Goto of send_commands([Start, Goto(T, true)]) enters the mailbox only after
\* the Start has been taken out of it, and it is taken and applied only after
\* the Start has been applied in full (the medium is open).
C1_BurstAppliedInOrder ==
    /\ \A i \in 1..Len(cmdq) :
          (cmdq[i].kind = "Goto" /\ cmdq[i].src = "bg") =>
              /\ \A j \in 1..Len(cmdq) : cmdq[j].kind # "Start"
              /\ reader.open \/ (eng.pc = "apply" /\ eng.cur.kind = "Start")
    /\ (eng.cur.kind = "Goto" /\ eng.cur.src = "bg") => reader.open

\* C1's case: the burst's Goto has been applied.
C1_Witness ==
    /\ Applied("Goto")
    /\ eng.cur.src = "bg"
    /\ reader.open
    /\ reader.pos = start_offset(eng.cur.track)

\* C3: the controller clears the audio-stream slot and exits only after it has
\* received Stopped from the engine, and the engine pushes no sample after it
\* has replied Stopped.
C3_ShutdownHandshake ==
    /\ ctl.pc = "exited" => (ctl.reply = Stopped /\ nstopped = 1 /\ eng.pc = "exited")
    /\ (eng.pc # "unspawned" /\ ~audio_stream) => ctl.reply = Stopped
    /\ ~late_push

\* C3's case: the handshake has run and the slot is cleared.
C3_Witness == ctl.pc = "exited" /\ ~audio_stream /\ nstopped = 1

\* C4: the engine thread never blocks on the command mailbox nor on a lock the
\* controller holds, also while it runs the event listener.
C4_EngineNeverBlocksOnController ==
    /\ ~(eng.pc = "fin_send" /\ ~CanSend(cmdq, CmdCapacity))
    /\ ~(eng.pc = "fin_lock" /\ handle_lock = "ctl")

\* The variant that answers a query.
Answers(query, result) ==
    \/ query = "GetIsPaused" /\ result = "IsPaused"
    \/ query = "GetPosition" /\ result = "Position"
    \/ query = "StopAndWait" /\ result = "Stopped"

\* C6: a reply in the result mailbox is the variant that answers the query of
\* the send_recv call waiting for it; no reply is left over for a later call,
\* and no call ever finds an unexpected variant.
C6_ReplyAnswersQuery ==
    /\ Len(resq) <= 1
    /\ resq # << >> =>
          /\ ctl.pc = "recv"
          /\ Answers(ctl.cmd.kind, Head(resq).kind)
    /\ ctl.pc \in {"lock", "send"} => resq = << >>
    /\ ctl.pc = "panicked" => ~playback_handle

\* C6's case: the reply to a GetPosition is waiting for the call that asked.
C6_Witness ==
    /\ ctl.pc = "recv"
    /\ ctl.cmd.kind = "GetPosition"
    /\ resq = << Position(BYTES_PER_SAMPLE) >>

\* GetPosition is being answered in the loop iteration right after the one that
\* applied Goto(T, true).
PositionRightAfterGoto ==
    /\ resq # << >>
    /\ Head(resq).kind = "Position"
    /\ eng.cur.kind = "GetPosition"
    /\ eng.prev.kind = "Goto"
    /\ eng.prev.flag

SeekApplied == eng.cur.kind = "Seek" /\ eng.pc = "tick" /\ reader.open

\* C8: after every Seek with a medium open the cursor is at start_pos plus an
\* even number of samples.
C8_SeekLandsOnEvenSample ==
    SeekApplied =>
        /\ reader.pos >= start_pos
        /\ (reader.pos - start_pos) % (2 * BYTES_PER_SAMPLE) = 0

\* C8's case: a Seek whose sample count is odd has been applied.
C8_Witness == SeekApplied /\ SeekSampleCount(eng.cur.arg) % 2 = 1

\* C9: Seek(s) with s >= the track's duration leaves the cursor strictly
\* before end_pos.
C9_SeekPastEndIsClamped ==
    (SeekApplied /\ end_pos > start_pos /\ eng.cur.arg >= end_pos - start_pos)
        => reader.pos < end_pos

EngineGone == eng.pc \in {"exited", "overflow"} \/ ~Running

\* C2: a StopAndWait in the command mailbox always yields a Stopped reply.
C2_StopAndWaitAlwaysReplied ==
    (\E i \in 1..Len(cmdq) : cmdq[i].kind = "StopAndWait")
        ~> (nstopped = 1 \/ eng.pc = "overflow")

\* C5: with the audio callback draining the queue, every command sent is
\* eventually consumed and every send_recv call eventually returns.
C5_EveryCommandConsumed ==
    /\ (cmdq # << >>) ~> (cmdq = << >> \/ EngineGone)
    /\ (ctl.pc = "recv") ~> (ctl.pc # "recv" \/ eng.pc = "overflow")

\* C11: the engine's stored volume multiplier is always within [0, 1], whatever
\* ChangeVolume(v) commands were applied.
C11_VolumeWithinUnitRange == volume >= 0 /\ volume <= FullVolume

C13_ProgressOncePerSecond ==
    \A i, j \in 1..Len(progress_log.secs) :
        i < j => progress_log.secs[i] # progress_log.secs[j]

\* C14: the current_seconds of successive Progress events never decreases while
\* playing, and the first Progress after a Goto carries current_seconds = 0.
C14_ProgressNonDecreasing ==
    /\ \A i, j \in 1..Len(progress_log.secs) :
          i < j => progress_log.secs[i] <= progress_log.secs[j]
    /\ progress_log.by = "Goto" => progress_log.secs[1] = 0

\* C15: the audio-stream slot is written exactly twice over a session: it is
\* empty and unwritten until the playback session is started, set by the one
\* write of the start and non-empty for as long as the engine may push a sample,
\* and cleared by the one write of the shutdown.
C15_StreamSlotWrittenTwice ==
    /\ stream_writes <= 2
    /\ eng.pc = "unspawned" => (stream_writes = 0 /\ ~audio_stream)
    /\ (eng.pc # "unspawned" /\ ctl.pc # "exited") =>
          (stream_writes = 1 /\ audio_stream)
    /\ ctl.pc = "exited" => (stream_writes = 2 /\ ~audio_stream)

\* C15's case: the session was started and shut down.
C15_Witness == ctl.pc = "exited" /\ eng.pc = "exited" /\ stream_writes = 2

\* C16: the command mailbox never holds more than one unconsumed command; a
\* sender that finds it occupied waits, and its command enters the mailbox
\* when the engine has taken the previous one; a command leaves the mailbox
\* only as the head the engine takes to apply, so none is dropped or reordered.
C16_MailboxHoldsOneCommand ==
    /\ [](Len(cmdq) <= 1)
    /\ [][/\ cmdq' # cmdq =>
                \/ cmdq = << >> /\ Len(cmdq') = 1
                \/ /\ cmdq' = Tail(cmdq)
                   /\ eng.pc = "poll"
                   /\ eng'.pc = "apply"
                   /\ eng'.cur = Head(cmdq)
          /\ (ctl.pc = "send" /\ cmdq # << >>) => ctl' = ctl
          /\ (ctl.pc = "send" /\ ctl'.pc # "send") => cmdq' = << ctl.cmd >>]_vars

\* C16's case: a sender waits at a mailbox that holds an unconsumed command.
C16_Witness == ctl.pc = "send" /\ Len(cmdq) = 1 /\ eng.pc # "unspawned"

\* The engine step that applies the Goto it has taken.
GotoStep == eng.pc = "apply" /\ eng.cur.kind = "Goto" /\ eng'.pc # "apply"

\* What every Goto does: start_pos and end_pos become the track's byte offsets,
\* the cursor of an open medium moves to start_pos, and song_seconds is the
\* whole seconds of the track.
GotoSetsTrack ==
    /\ start_pos' = start_offset(eng.cur.track)
    /\ end_pos' = end_offset(eng.cur.track)
    /\ reader.open => reader' = [open |-> TRUE, pos |-> start_pos']
    /\ song_seconds' = (end_pos' - start_pos') \div BYTES_ONE_SEC

\* C17 as stated: Goto(track, autoplay) sets the track, always emits
\* Progress(0, song_seconds), and when autoplay is true clears paused and emits
\* Paused(false); when autoplay is false it leaves paused unchanged and emits no
\* Paused event.
C17_GotoAutoplayClearsPaused ==
    [][GotoStep =>
          /\ GotoSetsTrack
          /\ IF eng.cur.flag
             THEN /\ ~paused'
                  /\ events' = << Paused(FALSE), Progress(0, song_seconds') >>
             ELSE /\ paused' = paused
                  /\ events' = << Progress(0, song_seconds') >>]_vars

\* C17 as amended: as stated, but autoplay clears paused and emits Paused(false)
\* only when a medium is open; with no medium open Goto leaves paused unchanged
\* and emits no Paused event, whatever autoplay is.
C17_GotoAutoplayNeedsMedium ==
    [][GotoStep =>
          /\ GotoSetsTrack
          /\ ~reader.open => reader' = reader
          /\ IF eng.cur.flag /\ reader.open
             THEN /\ ~paused'
                  /\ events' = << Paused(FALSE), Progress(0, song_seconds') >>
             ELSE /\ paused' = paused
                  /\ events' = << Progress(0, song_seconds') >>]_vars

\* C17's case: Goto(T, true) has been applied with no medium open.
C17_Witness ==
    /\ eng.cur.kind = "Goto"
    /\ eng.cur.flag
    /\ eng.pc = "tick"
    /\ ~reader.open
    /\ paused
    /\ start_pos = start_offset(eng.cur.track)
    /\ start_pos > 0
    /\ events = << Progress(0, song_seconds) >>

\* The engine step that runs the sample section with the medium open and playing.
TickStep == eng.pc = "tick" /\ eng'.pc # "tick" /\ ~paused /\ reader.open

\* C18: on every tick with cursor >= end_pos the engine emits Finished and
\* neither reads nor pushes a sample; every sample pushed to the output queue
\* was read at a cursor strictly below end_pos, and the read stays below it.
C18_NoReadPastTrackEnd ==
    [][/\ (TickStep /\ reader.pos >= end_pos) =>
              /\ events' = << Finished >>
              /\ reader' = reader
              /\ sampleq' = sampleq
       /\ Len(sampleq') > Len(sampleq) =>
              /\ TickStep
              /\ reader.pos < end_pos
              /\ reader'.pos = reader.pos + BYTES_PER_SAMPLE
              /\ reader'.pos <= end_pos
              /\ sampleq' = Append(sampleq, ScaleSample(MediumSample(reader.pos), volume))
       /\ reader'.pos > reader.pos => (eng.pc = "apply" \/ reader.pos < end_pos)]_vars

\* C18's case: the cursor has reached end_pos with samples of the track pushed,
\* and the tick emitted Finished.
C18_Witness ==
    /\ events = << Finished >>
    /\ reader.open
    /\ reader.pos = end_pos
    /\ end_pos > start_pos
    /\ sampleq # << >>

SeekStep ==
    eng.pc = "apply" /\ eng.cur.kind = "Seek" /\ reader.open /\ eng'.pc # "apply"

\* floor(s * samples_per_second), s in ticks of 1/BYTES_ONE_SEC second.
FloorSamples(s) == (SAMPLES_ONE_SEC * s) \div BYTES_ONE_SEC

\* n with its low bit cleared.
LowBitCleared(n) == n - (n % 2)

\* What a Seek leaves behind once its sample count n is known: the cursor at
\* start_pos + n * bytes_per_sample, one Progress with the whole seconds of
\* the new offset, and paused, volume, start_pos, end_pos as they were.
SeekLandsAt(n) ==
    /\ reader' = [open |-> TRUE, pos |-> start_pos + n * BYTES_PER_SAMPLE]
    /\ events' =
          << Progress((reader'.pos - start_pos) \div BYTES_ONE_SEC, song_seconds) >>
    /\ UNCHANGED << paused, volume, start_pos, end_pos, song_seconds >>

\* C20 as stated: Seek(s) with a medium open moves the cursor to
\* start_pos + n * bytes_per_sample with n = floor(s * samples_per_second),
\* low bit cleared, emits exactly one Progress(floor((cursor - start_pos) /
\* bytes_per_second), song_seconds) and leaves paused, volume, start_pos and
\* end_pos unchanged.
C20_SeekMovesToFloorSample ==
    [][SeekStep => SeekLandsAt(LowBitCleared(FloorSamples(eng.cur.arg)))]_vars

\* C20 as amended: as stated for s >= 0; for s < 0 the sample count is 0, so
\* the cursor lands on start_pos and the event is Progress(0, song_seconds).
C20_SeekMovesToSaturatedFloorSample ==
    [][SeekStep =>
          SeekLandsAt(IF eng.cur.arg < 0
                      THEN 0
                      ELSE LowBitCleared(FloorSamples(eng.cur.arg)))]_vars

\* C20's case: a Seek to one and a half seconds has been applied on a track
\* that starts inside the medium: three samples, of which two are skipped.
C20_Witness ==
    /\ SeekApplied
    /\ FloorSamples(eng.cur.arg) = 3
    /\ start_pos > 0
    /\ reader.pos = start_pos + 2 * BYTES_PER_SAMPLE
    /\ events = << Progress(1, song_seconds) >>

\* The engine step that applies the Pause, Play or SetPaused it has taken.
PauseStep ==
    /\ eng.pc = "apply"
    /\ eng.cur.kind \in {"Pause", "Play", "SetPaused"}
    /\ eng'.pc # "apply"

\* The value the command asks `paused` to take.
PausedAsked(c) ==
    CASE c.kind = "Pause" -> TRUE
      [] c.kind = "Play" -> FALSE
      [] c.kind = "SetPaused" -> c.flag

\* C21: Pause sets paused to true, Play sets it to false, SetPaused(p) sets it
\* to p, and each of them emits exactly one Paused event carrying the new value
\* of paused, also when the value did not change.
C21_PauseCommandsSetAndReport ==
    [][PauseStep =>
          /\ paused' = PausedAsked(eng.cur)
          /\ events' = << Paused(paused') >>
          /\ UNCHANGED << reader, start_pos, end_pos, song_seconds, volume >>]_vars

\* C21's case: Pause applied as the first command, when paused was true already.
C21_Witness ==
    /\ nkeys = 1
    /\ eng.cur.kind = "Pause"
    /\ eng.pc = "tick"
    /\ paused
    /\ events = << Paused(TRUE) >>

\* The engine step that applies the GetPosition or GetIsPaused it has taken.
QueryStep ==
    /\ eng.pc = "apply"
    /\ eng.cur.kind \in {"GetPosition", "GetIsPaused"}
    /\ eng'.pc # "apply"

\* C22: GetPosition replies Position((cursor - start_pos) / bytes_per_second)
\* when a medium is open and Position(0) when none is open; GetIsPaused replies
\* IsPaused with the current value of paused.
C22_QueriesReplyState ==
    [][QueryStep =>
          resq' = Append(resq,
                         IF eng.cur.kind = "GetIsPaused" THEN IsPaused(paused)
                         ELSE IF reader.open
                              THEN Position(reader.pos - start_pos)
                              ELSE Position(0))]_vars

\* The engine step that reads a sample and pushes it.
PushStep == Len(sampleq') > Len(sampleq)

\* The engine step that applies the ChangeVolume it has taken.
ChangeVolumeStep == eng.pc = "apply" /\ eng.cur.kind = "ChangeVolume" /\ eng'.pc # "apply"

\* round(x) for x = num / FullVolume: the nearest integer, halves away from zero.
Round(num) ==
    IF num >= 0 THEN (2 * num + FullVolume) \div (2 * FullVolume)
    ELSE -((2 * (-num) + FullVolume) \div (2 * FullVolume))

\* x = num / FullVolume with its fraction dropped, limited to 16 bits.
Truncate16(num) ==
    LET t == IF num >= 0 THEN num \div FullVolume ELSE -((-num) \div FullVolume)
    IN  IF t > I16Max THEN I16Max ELSE IF t < I16Min THEN I16Min ELSE t

\* The volume in force is the one of the most recent ChangeVolume: only
\* ChangeVolume assigns it, to its argument, and it emits no event.
VolumeSetByChangeVolume ==
    /\ ChangeVolumeStep => (volume' = eng.cur.arg /\ events' = << >>)
    /\ volume' # volume => ChangeVolumeStep

\* C23 as stated: every sample pushed to the output queue equals
\* round(read sample * current volume), the volume being the one set by the
\* most recent ChangeVolume applied before the read; ChangeVolume emits no event.
C23_PushedSampleIsRounded ==
    [][/\ PushStep =>
             sampleq' = Append(sampleq, Round(MediumSample(reader.pos) * volume))
       /\ VolumeSetByChangeVolume]_vars

\* C23 as amended: every sample pushed equals read sample * current volume with
\* its fraction dropped (truncated towards zero) and limited to the 16-bit
\* range; the rest as stated.
C23_PushedSampleIsTruncated ==
    [][/\ PushStep =>
             sampleq' = Append(sampleq, Truncate16(MediumSample(reader.pos) * volume))
       /\ VolumeSetByChangeVolume]_vars

\* C23's case: the sample 3 has been pushed at half volume as 1, not as 2.
C23_Witness ==
    /\ volume = 50
    /\ sampleq = << 1 >>
    /\ reader.pos = start_pos + BYTES_PER_SAMPLE
    /\ MediumSample(start_pos) = 3

\* The engine is at sample_tx.send with a sample to push.
AtSampleSend == eng.pc = "tick" /\ ~paused /\ reader.open /\ reader.pos < end_pos

\* C24: the output sample queue never holds more than AUDIO_SAMPLE_RATE
\* samples; when it is full the engine's push waits (the engine does nothing)
\* until the audio callback has consumed a sample; and no sample is dropped or
\* duplicated: the queue changes only by one sample appended at its tail, read
\* at the cursor, which moves on by that one sample, or by its head taken out.
C24_OutputQueueBounded ==
    /\ [](Len(sampleq) <= AUDIO_SAMPLE_RATE)
    /\ [][/\ (AtSampleSend /\ Len(sampleq) = AUDIO_SAMPLE_RATE /\ sampleq' = sampleq)
                => UNCHANGED << eng, engine_locals, events >>
          /\ \/ sampleq' = sampleq
             \/ /\ sampleq # << >>
                /\ sampleq' = Tail(sampleq)
                /\ UNCHANGED << eng, engine_locals >>
             \/ /\ AtSampleSend
                /\ Len(sampleq) < AUDIO_SAMPLE_RATE
                /\ sampleq' = Append(sampleq, ScaleSample(MediumSample(reader.pos), volume))
                /\ reader'.pos = reader.pos + BYTES_PER_SAMPLE
          /\ (eng.pc = "tick" /\ reader'.pos # reader.pos) =>
                Len(sampleq') = Len(sampleq) + 1]_vars

\* C24's case: the queue is full and the engine has the next sample to push.
C24_Witness ==
    /\ AtSampleSend
    /\ Len(sampleq) = AUDIO_SAMPLE_RATE
    /\ reader.pos > start_pos

\* C25: track byte offsets are the sector addresses times the 2048-byte sector
\* size and are therefore sector-aligned: start_offset = start_addr * 2048 and
\* end_offset = end_addr * 2048; start_addr = 100, end_addr = 200 gives 204800
\* and 409600; and start_offset <= end_offset whenever start_addr <= end_addr.
C25_OffsetsAreSectorAligned ==
    offsets # NoOffsets =>
        /\ offsets.start = track.start_addr * 2048
        /\ offsets.end = track.end_addr * 2048
        /\ offsets.start % 2048 = 0
        /\ offsets.end % 2048 = 0
        /\ (track.start_addr = 100 /\ track.end_addr = 200) =>
              (offsets.start = 204800 /\ offsets.end = 409600)
        /\ track.start_addr <= track.end_addr => offsets.start <= offsets.end

\* C25's case: the offsets of Track{start_addr 100, end_addr 200} are computed.
C25_Witness ==
    /\ track.start_addr = 100
    /\ track.end_addr = 200
    /\ offsets = [start |-> 204800, end |-> 409600]

\* C26: whenever the engine reads a sample, start_pos <= cursor < end_pos, for
\* every order in which Start, Goto, Seek, Play and SetPaused can be applied,
\* so the subtraction cursor - start_pos used for Progress and GetPosition
\* never underflows.
C26_CursorWithinTrack ==
    /\ (eng.pc = "tick" /\ ~paused /\ reader.open /\ reader.pos < end_pos) =>
          start_pos <= reader.pos
    /\ (eng.pc = "apply" /\ eng.cur.kind = "GetPosition" /\ reader.open) =>
          start_pos <= reader.pos
    /\ eng.pc # "overflow"

\* The controller is in clean_up_and_exit, about to take the playback handle.
InCleanUpAndExit == ctl.kont = "exit" /\ ctl.pc = "lock"

\* C27: from every UI state in which a quit key is accepted (Starting, Error,
\* Player), quitting runs the StopAndWait handshake and exits cleanly:
\* clean_up_and_exit is never executed while the global playback-handle slot is
\* still empty, and the controller never panics.
C27_QuitFindsPlaybackHandle ==
    /\ InCleanUpAndExit => playback_handle
    /\ ctl.pc # "panicked"

\* The engine step that finds the cursor at the end of the playing track and
\* calls the listener with Finished.
FinishedStep == eng.pc = "tick" /\ eng'.pc = "fin_lock"

\* The Goto the Finished listener sends: the track of the song now playing.
ListenerGoto == Goto(SongTrack(ui.playing_song_idx), TRUE, "eng")

\* C28: with the TUI listener installed, each time playback reaches the end of
\* the playing track Finished is emitted exactly once, playing_song_idx advances
\* by exactly one position (wrapping to 0 after the last song), and exactly one
\* Goto(next track, autoplay = true) is enqueued and applied, under every
\* interleaving with controller key commands.
C28_FinishedAdvancesToNextSong ==
    /\ [][/\ FinishedStep =>
                /\ events' = << Finished >>
                /\ ui'.playing_song_idx = (ui.playing_song_idx + 1) % Len(songs)
          /\ (\E i \in 1..Len(cmdq') : cmdq'[i].src = "eng") /\ cmdq' # cmdq =>
                /\ eng.pc = "fin_send"
                /\ cmdq' = << ListenerGoto >>]_vars
    /\ (eng.pc = "fin_lock") ~>
          (/\ eng.pc = "tick"
           /\ eng.cur.src = "eng"
           /\ eng.cur = ListenerGoto
           /\ reader.pos = start_pos)

\* A key event is handled in the Player state.
PlayerKeyStep == nkeys' = nkeys + 1 /\ ui.ui_state = "Player"

\* Both song indices are indices into the song list.
SongIndicesValid ==
    /\ ui.playing_song_idx \in 0..(Len(songs) - 1)
    /\ ui.selected_song_idx \in 0..(Len(songs) - 1)

\* C29: after any sequence of next/previous/selection-up/selection-down/Enter
\* key events in the Player state, playing_song_idx and selected_song_idx are
\* valid indices into the song list (0 <= idx < number of songs, wrapping at
\* both ends), for every list length including the empty list: with songs in
\* the list the indices are always valid, and no key makes the handler panic
\* on an index or leaves an index it has changed outside the list.
C29_SongIndicesValid ==
    /\ [](Len(songs) > 0 => SongIndicesValid)
    /\ [][PlayerKeyStep =>
             /\ ctl'.pc # "panicked_idx"
             /\ (ui'.playing_song_idx # ui.playing_song_idx
                    \/ ui'.selected_song_idx # ui.selected_song_idx)
                   => SongIndicesValid']_vars

\* A volume level within [0, 1], in hundredths.
InUnitRange(v) == v >= 0 /\ v <= 100

\* C30: after any sequence of volume-up and volume-down key events, the UI
\* volume stays within [0, 1] and every ChangeVolume command the controller
\* sends carries a level within [0, 1].
C30_KeyVolumeWithinUnitRange ==
    /\ InUnitRange(ui.volume)
    /\ ctl.cmd.kind = "ChangeVolume" => InUnitRange(ctl.cmd.arg)
    /\ \A i \in 1..Len(cmdq) :
          cmdq[i].kind = "ChangeVolume" => InUnitRange(cmdq[i].arg)
    /\ eng.cur.kind = "ChangeVolume" => InUnitRange(eng.cur.arg)

\* C30's case: two volume-down keys from 0.01: the first ChangeVolume(0) has
\* been applied and the second key stopped at 0 again.
C30_Witness ==
    /\ nkeys = 2
    /\ ui.volume = 0
    /\ ctl.pc = "lock"
    /\ ctl.cmd = ChangeVolume(0, "ctl")
    /\ eng.cur = ChangeVolume(0, "ctl")
    /\ volume = 0

\* The engine step that applies a Seek it has taken while no medium is open.
SeekClosedStep ==
    /\ eng.pc = "apply"
    /\ eng.cur.kind = "Seek"
    /\ ~reader.open
    /\ eng'.pc # "apply"

\* C31: the queries GetPosition and GetIsPaused are read-only: applying them
\* leaves paused, the cursor, start_pos, end_pos, song_seconds and volume
\* unchanged and emits no listener event; likewise a Seek applied while no
\* medium is open changes no engine state and emits no event.
C31_QueriesAreReadOnly ==
    [][(QueryStep \/ SeekClosedStep) =>
          /\ UNCHANGED << paused, reader, start_pos, end_pos, song_seconds, volume >>
          /\ events' = << >>
          /\ UNCHANGED << ui, progress_log, sampleq >>
          /\ SeekClosedStep => resq' = resq]_vars

\* C31's case: a Seek has been applied with a track selected and no medium open.
C31_Witness ==
    /\ eng.cur.kind = "Seek"
    /\ eng.cur.arg > 0
    /\ eng.pc = "tick"
    /\ ~reader.open
    /\ reader.pos = 0
    /\ start_pos > 0
    /\ events = << >>

====
